---- MODULE Spec2Model ----
(***************************************************************************)
(* Model of the dunkelflaute power-system pipeline: main() builds a        *)
(* single-bus PyPSA network from a profile table and a scenario            *)
(* (Model.__init__), solves the dispatch / capacity linear program         *)
(* (Model.optimize), extracts the result table (Model.get_results) and     *)
(* reports.                                                                *)
(*                                                                         *)
(* Units.  Power is held in integer base units, PowerScale per MW, and     *)
(* the state of charge in base units times hours.  Fractions of the        *)
(* profile table are numerators over ProfileDen, costs numerators over     *)
(* CostDen, the standing loss a numerator over LossDen and the storage     *)
(* efficiencies numerators over EffDen = LossDen - standing_loss, so that  *)
(* an efficiency can cancel the hourly standing loss and every product     *)
(* below is exact.                                                         *)
(***************************************************************************)
EXTENDS Integers, Sequences, FiniteSets, TLC

VARIABLES pc, df_profiles, scenario, germany_model, network, opt_state,
          generators_t_p, storage_units_t, loads_t_p, p_nom_opt, df_result,
          log, raised, solver_runs, report

vars == <<pc, df_profiles, scenario, germany_model, network, opt_state,
          generators_t_p, storage_units_t, loads_t_p, p_nom_opt, df_result,
          log, raised, solver_runs, report>>

----------------------------------------------------------------------------
(* Bounds of the model *)

NSteps == 2
MaxInst == 2
MaxBattery == 1
MaxLoad == 2

(* Scales and program constants *)

LossDen == 10000
CostDen == 100
ProfileDen == 2

\* A renewable marginal cost above every cost of the residual generator
\* (the faulty variant of renewable_marginal_cost).
dearer_renewable_marginal_cost == 4 * CostDen

standing_loss == 1
renewable_marginal_cost == 10

EffDen == LossDen - standing_loss
\* Half a MW is 6 base units: halves and thirds of it are whole.
PowerScale == 6 * ProfileDen

\* The efficiencies main() is run with: charging without loss, and a
\* discharge efficiency that, after one hour of standing loss, hands out half
\* of what was stored ((LossDen / 2) / EffDen, about 0.50005).
FullEfficiency == EffDen
HalvingEfficiency == LossDen \div 2

None == "None"
NaN == "nan"

Steps == 0 .. (NSteps - 1)
LastStep == NSteps - 1

Renewables == {"pv", "wind_on", "wind_off", "biomass", "hydro"}
GeneratorNames == Renewables \cup {"residual_load"}
ProfileColumns == {"pv_profile", "wind_on_profile", "wind_off_profile",
                   "biomass_profile", "hydro_profile", "load_profile"}

ProfileOf(g) == CASE g = "pv" -> "pv_profile"
                  [] g = "wind_on" -> "wind_on_profile"
                  [] g = "wind_off" -> "wind_off_profile"
                  [] g = "biomass" -> "biomass_profile"
                  [] g = "hydro" -> "hydro_profile"

RECURSIVE SumOver(_, _)
SumOver(S, f) == IF S = {} THEN 0
                 ELSE LET x == CHOOSE y \in S : TRUE
                      IN f[x] + SumOver(S \ {x}, f)

RECURSIVE MaxOver(_, _)
MaxOver(S, f) == LET x == CHOOSE y \in S : TRUE
                 IN IF S = {x} THEN f[x]
                    ELSE LET m == MaxOver(S \ {x}, f)
                         IN IF f[x] > m THEN f[x] ELSE m

Max2(a, b) == IF a > b THEN a ELSE b

----------------------------------------------------------------------------
(* Inputs of main(): the profile table and the scenario *)

EmptyFrame == [index |-> {}, data |-> <<>>]

LoadProfiles == {f \in [Steps -> 0 .. ProfileDen] : SumOver(Steps, f) = ProfileDen}
VaryingProfiles == [Steps -> {0, ProfileDen}]
HalfProfile == [t \in Steps |-> ProfileDen \div 2]
FullProfile == [t \in Steps |-> ProfileDen]

\* The tables main() is run on: the sun comes and goes, the onshore wind
\* blows at half strength, the other technologies are fully available, and
\* the load fractions add up to one.
ProfileFrames ==
  {[index |-> Steps,
    data |-> [c \in ProfileColumns |->
                CASE c = "pv_profile" -> pv
                  [] c = "wind_on_profile" -> HalfProfile
                  [] c = "load_profile" -> ld
                  [] OTHER -> FullProfile]] :
     pv \in VaryingProfiles, ld \in LoadProfiles}

\* Installed renewable capacities of at most MaxInst MW in total.
InstalledOptions ==
  {f \in [Renewables -> 0 .. MaxInst] : SumOver(Renewables, f) <= MaxInst}

\* <<marginal_cost_residual, capital_cost_residual>>, numerators over CostDen:
\* a backup dearer to run than the renewables (1.0, 2.0), one cheaper to run
\* than them (0.05, 2.0), and one that is paid for being built (1.0, -1.0).
ResidualCosts == {<<CostDen, 2 * CostDen>>,
                  <<CostDen \div 20, 2 * CostDen>>,
                  <<CostDen, -CostDen>>}

Scenarios ==
  {[load |-> MaxLoad,
    pv_p_inst |-> inst["pv"],
    wind_on_p_inst |-> inst["wind_on"],
    wind_off_p_inst |-> inst["wind_off"],
    bio_p_inst |-> inst["biomass"],
    hydro_p_inst |-> inst["hydro"],
    batteries_p_inst |-> bat,
    batteries_duration |-> 1,
    charge_efficiency |-> FullEfficiency,
    discharge_efficiency |-> HalvingEfficiency,
    marginal_cost_residual |-> cost[1],
    capital_cost_residual |-> cost[2],
    min_installed_cap_residual |-> mincap] :
     inst \in InstalledOptions, bat \in 0 .. MaxBattery,
     cost \in ResidualCosts, mincap \in {0, MaxLoad + 1}}

----------------------------------------------------------------------------
(* Model.__init__: attributes, network, generators, load, storage unit *)

InstalledCapacities(s) ==
  [pv |-> s.pv_p_inst,
   wind_on |-> s.wind_on_p_inst,
   wind_off |-> s.wind_off_p_inst,
   biomass |-> s.bio_p_inst,
   hydro |-> s.hydro_p_inst,
   batteries_p_inst |-> s.batteries_p_inst,
   batteries_duration |-> s.batteries_duration]

ModelAttributes(profiles, s) ==
  [df_profiles |-> profiles,
   installed_capacities |-> InstalledCapacities(s),
   charge_efficiency |-> s.charge_efficiency,
   discharge_efficiency |-> s.discharge_efficiency,
   marginal_cost_residual |-> s.marginal_cost_residual,
   capital_cost_residual |-> s.capital_cost_residual,
   min_installed_cap_residual |-> s.min_installed_cap_residual]

\* df_profiles[column] raises KeyError when the table has no such column.
HasColumns(profiles) == ProfileColumns \subseteq DOMAIN profiles.data

\* The exceptions an empty table can raise in __init__: set_snapshots on an
\* empty index (ValueError, where the library rejects it) or the first column
\* lookup of add_generators (KeyError).
ConstructionErrors(profiles) ==
  IF HasColumns(profiles) THEN {} ELSE {"ValueError", "KeyError"}

RenewableGenerator(self, g) ==
  [bus |-> "DE",
   p_nom |-> self.installed_capacities[g],
   p_nom_extendable |-> FALSE,
   p_nom_min |-> 0,
   marginal_cost |-> renewable_marginal_cost,
   capital_cost |-> 0,
   p_max_pu |-> self.df_profiles.data[ProfileOf(g)]]

\* Faulty variant of ResidualGenerator: p_nom_min is not passed on.
ResidualGeneratorWithoutMinimum(self) ==
  [bus |-> "DE",
   p_nom |-> 0,
   p_nom_extendable |-> TRUE,
   p_nom_min |-> 0,
   marginal_cost |-> self.marginal_cost_residual,
   capital_cost |-> self.capital_cost_residual,
   p_max_pu |-> [t \in self.df_profiles.index |-> ProfileDen]]

\* Faulty variant of ResidualGenerator: capital_cost is not passed on.
ResidualGeneratorWithoutCapitalCost(self) ==
  [bus |-> "DE",
   p_nom |-> 0,
   p_nom_extendable |-> TRUE,
   p_nom_min |-> self.min_installed_cap_residual,
   marginal_cost |-> self.marginal_cost_residual,
   capital_cost |-> 0,
   p_max_pu |-> [t \in self.df_profiles.index |-> ProfileDen]]

ResidualGenerator(self) ==
  [bus |-> "DE",
   p_nom |-> 0,
   p_nom_extendable |-> TRUE,
   p_nom_min |-> self.min_installed_cap_residual,
   marginal_cost |-> self.marginal_cost_residual,
   capital_cost |-> self.capital_cost_residual,
   p_max_pu |-> [t \in self.df_profiles.index |-> ProfileDen]]

add_generators(self) ==
  [g \in GeneratorNames |->
     IF g = "residual_load" THEN ResidualGenerator(self)
     ELSE RenewableGenerator(self, g)]

\* Faulty variant of LoadPSet: the profile is not scaled by the annual load.
LoadPSetUnscaled(profiles, load) ==
  [t \in profiles.index |->
     (profiles.data["load_profile"][t] * PowerScale) \div ProfileDen]

LoadPSet(profiles, load) ==
  [t \in profiles.index |->
     (profiles.data["load_profile"][t] * load * PowerScale) \div ProfileDen]

\* Faulty variant of BatteryUnit: p_nom is taken from the duration.
BatteryUnitPowerFromDuration(self) ==
  [bus |-> "DE",
   p_nom |-> self.installed_capacities["batteries_duration"],
   max_hours |-> self.installed_capacities["batteries_duration"],
   cyclic_state_of_charge |-> TRUE,
   efficiency_store |-> self.charge_efficiency,
   efficiency_dispatch |-> self.discharge_efficiency,
   standing_loss |-> standing_loss]

BatteryUnit(self) ==
  [bus |-> "DE",
   p_nom |-> self.installed_capacities["batteries_p_inst"],
   max_hours |-> self.installed_capacities["batteries_duration"],
   cyclic_state_of_charge |-> TRUE,
   efficiency_store |-> self.charge_efficiency,
   efficiency_dispatch |-> self.discharge_efficiency,
   standing_loss |-> standing_loss]

BuildNetwork(self, load) ==
  [snapshots |-> self.df_profiles.index,
   buses |-> {"DE"},
   generators |-> add_generators(self),
   loads |-> [l \in {"load"} |->
                [bus |-> "DE", p_set |-> LoadPSet(self.df_profiles, load)]],
   storage_units |-> [u \in {"batteries"} |-> BatteryUnit(self)]]

EmptyNetwork ==
  [snapshots |-> {}, buses |-> {}, generators |-> <<>>, loads |-> <<>>,
   storage_units |-> <<>>]

----------------------------------------------------------------------------
(* Model.optimize: the linear program of the network (create_model) and its *)
(* solution (solve_model).  The decision variables range over a grid that   *)
(* holds the vertices the inputs above produce: a generator is off, at its  *)
(* availability, or takes up the remainder of the balance; the battery      *)
(* charges any whole number of base units.                                  *)

Available(n, g) ==
  [t \in n.snapshots |->
     (n.generators[g].p_max_pu[t] * n.generators[g].p_nom * PowerScale)
        \div ProfileDen]

\* The storage unit's plans.  The transition of the state of charge is
\*   soc(t) = soc(t-1) * (1 - standing_loss) + store(t) * efficiency_store
\*            - dispatch(t) / efficiency_dispatch
\* with soc(-1) = soc(last) when cyclic_state_of_charge is set and 0
\* otherwise.  The grid holds the plans that hand out at t what t-1 left:
\*   soc(t) = store(t) * efficiency_store
\*   dispatch(t) = soc(t-1) * (1 - standing_loss) * efficiency_dispatch
\* within 0 <= store, dispatch <= p_nom and 0 <= soc <= p_nom * max_hours.
Whole(num, den) == num % den = 0

StoredBy(su, c) == (su.efficiency_store * c) \div EffDen

HandedOutFrom(su, soc) ==
  (su.efficiency_dispatch * (LossDen - su.standing_loss) * soc)
     \div (LossDen * EffDen)

PreviousCharge(su, soc, t) ==
  IF t = 0
  THEN (IF su.cyclic_state_of_charge THEN soc[LastStep] ELSE 0)
  ELSE soc[t - 1]

StoragePlans(n) ==
  LET su == n.storage_units["batteries"]
      T == n.snapshots
      power == su.p_nom * PowerScale
      stores == {c \in 0 .. power : Whole(su.efficiency_store * c, EffDen)}
      plan(c) ==
        LET soc == [t \in T |-> StoredBy(su, c[t])]
        IN [p_store |-> c,
            p_dispatch |-> [t \in T |->
                              HandedOutFrom(su, PreviousCharge(su, soc, t))],
            state_of_charge |-> soc]
      ok(c) ==
        \A t \in T :
           LET soc == StoredBy(su, c[t])
               prev == StoredBy(su, c[IF t = 0 THEN LastStep ELSE t - 1])
           IN /\ soc <= power * su.max_hours
              /\ Whole(su.efficiency_dispatch * (LossDen - su.standing_loss) * soc,
                       LossDen * EffDen)
              /\ HandedOutFrom(su, soc) <= power
  IN {plan(c) : c \in {x \in [T -> stores] : ok(x)}}

RenewableTotal(g) ==
  g["pv"] + g["wind_on"] + g["wind_off"] + g["biomass"] + g["hydro"]

\* The dispatch of the renewable generators in one snapshot: each is off or
\* at its availability, and at most one covers what is left of `need`.
StepDispatch(avail, need) ==
  LET nz == {g \in Renewables : avail[g] > 0}
      full(F) == [g \in Renewables |-> IF g \in F THEN avail[g] ELSE 0]
      rest(F) == need - SumOver(F, avail)
      partial == {[full(x[1]) EXCEPT ![x[2]] = rest(x[1])] :
                    x \in {y \in (SUBSET nz) \X nz :
                             /\ y[2] \notin y[1]
                             /\ rest(y[1]) > 0
                             /\ rest(y[1]) < avail[y[2]]}}
  IN {g \in {full(F) : F \in SUBSET nz} \cup partial :
        RenewableTotal(g) <= need}

\* The capacities offered to the extendable generator: its lower bound, the
\* dispatch it has to carry, and one MW above either.
PNomGrid(rg, res) ==
  LET tight == {rg.p_nom_min * PowerScale} \cup res
  IN tight \cup {q + PowerScale : q \in tight}

NeedOf(n, plan) ==
  [t \in n.snapshots |->
     n.loads["load"].p_set[t] + plan.p_store[t] - plan.p_dispatch[t]]

\* StepDispatch for every snapshot and every amount the bus may ask for.
DispatchTable(n) ==
  LET su == n.storage_units["batteries"]
      most == MaxOver(n.snapshots, n.loads["load"].p_set) + su.p_nom * PowerScale
  IN [t \in n.snapshots |->
        LET avail == [g \in Renewables |-> Available(n, g)[t]]
        IN [need \in 0 .. most |-> StepDispatch(avail, need)]]

\* The renewable dispatch over the horizon, one StepDispatch per snapshot.
DispatchChoices(n, table, need) ==
  LET T == n.snapshots
  IN IF \E t \in T : need[t] < 0 THEN {}
     ELSE LET every == UNION {table[t][need[t]] : t \in T}
          IN {f \in [T -> every] : \A t \in T : f[t] \in table[t][need[t]]}

\* The bus balance leaves the rest to the residual generator.
ResidualOf(n, need, disp) ==
  [t \in n.snapshots |-> need[t] - RenewableTotal(disp[t])]

\* p_nom >= p_nom_min and p(t) <= p_nom * p_max_pu(t).
CapacityChoices(n, res) ==
  LET rg == n.generators["residual_load"]
  IN {q \in PNomGrid(rg, {res[t] : t \in n.snapshots}) :
        /\ q >= rg.p_nom_min * PowerScale
        /\ \A t \in n.snapshots : res[t] * ProfileDen <= q * rg.p_max_pu[t]}

\* Objective: marginal cost times dispatch, capital cost times the capacity of
\* the extendable generator.
Cost(n, disp, res, pn) ==
  LET T == n.snapshots
      gens == n.generators
      renewable == [t \in T |->
                      gens["pv"].marginal_cost * disp[t]["pv"]
                        + gens["wind_on"].marginal_cost * disp[t]["wind_on"]
                        + gens["wind_off"].marginal_cost * disp[t]["wind_off"]
                        + gens["biomass"].marginal_cost * disp[t]["biomass"]
                        + gens["hydro"].marginal_cost * disp[t]["hydro"]]
  IN SumOver(T, renewable)
       + gens["residual_load"].marginal_cost * SumOver(T, res)
       + gens["residual_load"].capital_cost * pn

Assignment(n, plan, disp, res, pn) ==
  [p |-> [g \in GeneratorNames |->
            IF g = "residual_load" THEN res
            ELSE [t \in n.snapshots |-> disp[t][g]]],
   p_nom_opt |-> pn,
   p_store |-> plan.p_store,
   p_dispatch |-> plan.p_dispatch,
   state_of_charge |-> plan.state_of_charge]

Feasible(n) ==
  LET table == DispatchTable(n)
  IN \E plan \in StoragePlans(n) :
        LET need == NeedOf(n, plan)
        IN \E disp \in DispatchChoices(n, table, need) :
              CapacityChoices(n, ResidualOf(n, need, disp)) # {}

\* An extendable generator without p_nom_max and with a negative capital cost
\* lets the objective fall without bound.
Unbounded(n) ==
  \E g \in GeneratorNames :
     n.generators[g].p_nom_extendable /\ n.generators[g].capital_cost < 0

\* Every feasible assignment of the grid with its cost in front.
Candidates(n) ==
  LET table == DispatchTable(n)
      of(plan) ==
        LET need == NeedOf(n, plan)
        IN UNION {LET res == ResidualOf(n, need, disp)
                  IN {<<Cost(n, disp, res, pn), plan, disp, res, pn>> :
                        pn \in CapacityChoices(n, res)} :
                    disp \in DispatchChoices(n, table, need)}
  IN UNION {of(plan) : plan \in StoragePlans(n)}

Optimal(n) ==
  LET candidates == Candidates(n)
      costs == {x[1] : x \in candidates}
      best == CHOOSE c \in costs : \A d \in costs : c <= d
  IN {Assignment(n, x[2], x[3], x[4], x[5]) :
        x \in {y \in candidates : y[1] = best}}

SolveStatus(n) ==
  IF ~Feasible(n) THEN <<"warning", "infeasible">>
  ELSE IF Unbounded(n) THEN <<"warning", "unbounded">>
  ELSE <<"ok", "optimal">>

----------------------------------------------------------------------------
(* Model.get_results *)

RenewableSum(table) ==
  [t \in DOMAIN table["pv"] |->
     table["pv"][t] + table["wind_on"][t] + table["wind_off"][t]
       + table["biomass"][t] + table["hydro"][t]]

WithColumn(table, name, column) ==
  [c \in DOMAIN table \cup {name} |-> IF c = name THEN column ELSE table[c]]

\* generators_t.p_max_pu * generators.p_nom: one column per generator with a
\* time-varying p_max_pu, then the column re_power_availability.
PowerAvailability(n) ==
  LET frame == [g \in Renewables |-> Available(n, g)]
  IN WithColumn(frame, "re_power_availability", RenewableSum(frame))

\* df_actual_generation is the network's own generators_t.p table, not a copy:
\* the column assignment writes into it.
ActualGeneration(gen_p) ==
  WithColumn(gen_p, "actual_re_generation", RenewableSum(gen_p))

CurtailedColumn(availability, generation) ==
  [t \in DOMAIN availability["re_power_availability"] |->
     availability["re_power_availability"][t]
       - generation["actual_re_generation"][t]]

\* Faulty variants of ResidualLoadColumn: one term of the difference is left
\* out.
ResidualLoadColumnWithoutBatteries(load, availability, batteries) ==
  [t \in DOMAIN load |-> load[t] - availability["re_power_availability"][t]]

ResidualLoadColumnWithoutAvailability(load, availability, batteries) ==
  [t \in DOMAIN load |-> load[t] - batteries[t]]

ResidualLoadColumn(load, availability, batteries) ==
  [t \in DOMAIN load |->
     load[t] - availability["re_power_availability"][t] - batteries[t]]

ResultTable(n, gen_p, sto_p, load_p) ==
  LET availability == PowerAvailability(n)
      generation == ActualGeneration(gen_p)
  IN [pv |-> availability["pv"],
      wind_on |-> availability["wind_on"],
      wind_off |-> availability["wind_off"],
      biomass |-> availability["biomass"],
      hydro |-> availability["hydro"],
      batteries |-> sto_p,
      load |-> load_p,
      curtailed_re |-> CurtailedColumn(availability, generation),
      residual_load |-> ResidualLoadColumn(load_p, availability, sto_p)]

----------------------------------------------------------------------------
(* main() *)

\* Faulty variant of OptimizationSuccessful: a warning passes as success.
OptimizationNotAnError(state) == state[1] \in {"ok", "warning"}

OptimizationSuccessful(state) == state[1] = "ok"

Positive(column) == {t \in DOMAIN column : column[t] > 0}

\* df_result.loc[df_result["residual_load"] > 0, "residual_load"].max():
\* NaN when no row is selected.
BackupCapacity(table) ==
  IF Positive(table.residual_load) = {} THEN NaN
  ELSE MaxOver(Positive(table.residual_load), table.residual_load)

BackupEnergy(table) ==
  SumOver(Positive(table.residual_load), table.residual_load)

CurtailedEnergy(table) == SumOver(DOMAIN table.curtailed_re, table.curtailed_re)

Init ==
  /\ pc = "start"
  /\ df_profiles \in ProfileFrames \cup {EmptyFrame}
  /\ scenario \in Scenarios
  /\ germany_model = None
  /\ network = EmptyNetwork
  /\ opt_state = None
  /\ generators_t_p = <<>>
  /\ storage_units_t = <<>>
  /\ loads_t_p = <<>>
  /\ p_nom_opt = None
  /\ df_result = None
  /\ log = <<>>
  /\ raised = None
  /\ solver_runs = 0
  /\ report = None

\* germany_model = Model(df_profiles, ...), every argument accepted.
MainConstruct ==
  /\ pc = "start"
  /\ ConstructionErrors(df_profiles) = {}
  /\ germany_model' = ModelAttributes(df_profiles, scenario)
  /\ network' = BuildNetwork(germany_model', scenario.load)
  /\ log' = Append(log, "Initialize model")
  /\ pc' = "constructed"
  /\ UNCHANGED <<df_profiles, scenario, opt_state, generators_t_p,
                 storage_units_t, loads_t_p, p_nom_opt, df_result, raised,
                 solver_runs, report>>

\* The constructor raises: main() ends with the exception.
MainConstructRaises ==
  /\ pc = "start"
  /\ \E e \in ConstructionErrors(df_profiles) : raised' = e
  /\ log' = Append(log, "Initialize model")
  /\ pc' = "raised"
  /\ UNCHANGED <<df_profiles, scenario, germany_model, network, opt_state,
                 generators_t_p, storage_units_t, loads_t_p, p_nom_opt,
                 df_result, solver_runs, report>>

\* opt_state = germany_model.optimize()
MainOptimize ==
  /\ pc = "constructed"
  /\ solver_runs' = solver_runs + 1
  /\ opt_state' = SolveStatus(network)
  /\ IF opt_state'[1] = "ok"
     THEN \E a \in Optimal(network) :
            /\ generators_t_p' = a.p
            /\ storage_units_t' =
                 [p |-> [t \in network.snapshots |->
                           a.p_dispatch[t] - a.p_store[t]],
                  p_store |-> a.p_store,
                  p_dispatch |-> a.p_dispatch,
                  state_of_charge |-> a.state_of_charge]
            /\ loads_t_p' = network.loads["load"].p_set
            /\ p_nom_opt' = a.p_nom_opt
     ELSE UNCHANGED <<generators_t_p, storage_units_t, loads_t_p, p_nom_opt>>
  /\ log' = Append(log, "Run optimization")
  /\ pc' = "optimized"
  /\ UNCHANGED <<df_profiles, scenario, germany_model, network, df_result,
                 raised, report>>

\* The success branch up to df_result = germany_model.get_results().  On a
\* network without a solution generators_t.p has no column and the lookup of
\* "pv" raises.
MainExtract ==
  /\ pc = "optimized"
  /\ OptimizationSuccessful(opt_state)
  /\ log' = Append(log, "Optimization successful")
  /\ IF "pv" \in DOMAIN generators_t_p
     THEN /\ generators_t_p' = ActualGeneration(generators_t_p)
          /\ df_result' = ResultTable(network, generators_t_p,
                                      storage_units_t.p, loads_t_p)
          /\ pc' = "extracted"
          /\ UNCHANGED raised
     ELSE /\ raised' = "KeyError"
          /\ pc' = "raised"
          /\ UNCHANGED <<generators_t_p, df_result>>
  /\ UNCHANGED <<df_profiles, scenario, germany_model, network, opt_state,
                 storage_units_t, loads_t_p, p_nom_opt, solver_runs, report>>

\* The three report lines, plot_results and write_html.
MainReport ==
  /\ pc = "extracted"
  /\ report' = [backup_capacity |-> BackupCapacity(df_result),
                backup_energy |-> BackupEnergy(df_result),
                curtailed |-> CurtailedEnergy(df_result),
                result_plot |-> TRUE]
  /\ log' = log \o <<"Installed backup power plant capacity",
                     "Electrical energy from backup power plants",
                     "Curtailed Renewables">>
  /\ pc' = "done"
  /\ UNCHANGED <<df_profiles, scenario, germany_model, network, opt_state,
                 generators_t_p, storage_units_t, loads_t_p, p_nom_opt,
                 df_result, raised, solver_runs>>

\* The else branch.
MainLogError ==
  /\ pc = "optimized"
  /\ ~OptimizationSuccessful(opt_state)
  /\ log' = Append(log, "Optimization not successful")
  /\ pc' = "failed"
  /\ UNCHANGED <<df_profiles, scenario, germany_model, network, opt_state,
                 generators_t_p, storage_units_t, loads_t_p, p_nom_opt,
                 df_result, raised, solver_runs, report>>

Next ==
  \/ MainConstruct
  \/ MainConstructRaises
  \/ MainOptimize
  \/ MainExtract
  \/ MainReport
  \/ MainLogError

Spec == Init /\ [][Next]_vars

----------------------------------------------------------------------------
(* The quantities the claims speak of, from the inputs of main() and the    *)
(* solved tables                                                            *)

InstalledOf(g) == CASE g = "pv" -> scenario.pv_p_inst
                    [] g = "wind_on" -> scenario.wind_on_p_inst
                    [] g = "wind_off" -> scenario.wind_off_p_inst
                    [] g = "biomass" -> scenario.bio_p_inst
                    [] g = "hydro" -> scenario.hydro_p_inst

LoadAt(t) ==
  (df_profiles.data["load_profile"][t] * scenario.load * PowerScale)
     \div ProfileDen

AvailableAt(g, t) ==
  (df_profiles.data[ProfileOf(g)][t] * InstalledOf(g) * PowerScale)
     \div ProfileDen

TotalAvailableAt(t) ==
  AvailableAt("pv", t) + AvailableAt("wind_on", t) + AvailableAt("wind_off", t)
    + AvailableAt("biomass", t) + AvailableAt("hydro", t)

RenewableDispatchAt(t) ==
  generators_t_p["pv"][t] + generators_t_p["wind_on"][t]
    + generators_t_p["wind_off"][t] + generators_t_p["biomass"][t]
    + generators_t_p["hydro"][t]

ResidualDispatchAt(t) == generators_t_p["residual_load"][t]

PeakLoad == MaxOver(Steps, [t \in Steps |-> LoadAt(t)])

PeakResidualDispatch == MaxOver(Steps, [t \in Steps |-> ResidualDispatchAt(t)])

MinResidualCapacity == scenario.min_installed_cap_residual * PowerScale

NoRenewablesNoBattery ==
  /\ \A g \in Renewables : InstalledOf(g) = 0
  /\ scenario.batteries_p_inst = 0

Optimized == pc \in {"optimized", "extracted", "done", "failed"}
Solved == pc \in {"optimized", "extracted", "done"} /\ opt_state[1] = "ok"
Extracted == pc \in {"extracted", "done"}

----------------------------------------------------------------------------
C2_EmptyProfilesConfigurationError ==
  (df_profiles = EmptyFrame /\ pc # "start") =>
    (raised = "ConfigurationError" /\ solver_runs = 0)

\* C3: get_results(), the report and the plot happen only after optimize()
\* returned the success status; on every other status the run ends with the
\* error log and nothing is extracted.
C3_ExtractionOnlyWhenSolved ==
  /\ (pc \in {"extracted", "done"}) => (solver_runs = 1 /\ opt_state[1] = "ok")
  /\ (solver_runs = 1 /\ opt_state[1] # "ok" /\ pc # "optimized") =>
       /\ pc = "failed"
       /\ log[Len(log)] = "Optimization not successful"
  /\ (pc \in {"start", "constructed", "optimized", "failed", "raised"}) =>
       (df_result = None /\ report = None)

C3_Witness ==
  /\ pc = "failed"
  /\ opt_state = <<"warning", "unbounded">>
  /\ df_result = None

\* C4: get_results() changes nothing of the model: the network, the solved
\* dispatch table generators_t.p and its set of columns, the storage and load
\* tables are the same after the call as before it.
C4_GetResultsPure ==
  [][(pc = "optimized" /\ pc' = "extracted") =>
       /\ generators_t_p' = generators_t_p
       /\ network' = network
       /\ storage_units_t' = storage_units_t
       /\ loads_t_p' = loads_t_p
       /\ p_nom_opt' = p_nom_opt]_vars

\* C5: in every solved model, at every timestep, the dispatch of the five
\* renewable generators plus the residual dispatch plus the battery's net
\* power equals load_profile(t) * annual load.
C5_EnergyBalance ==
  Solved =>
    \A t \in Steps :
       RenewableDispatchAt(t) + ResidualDispatchAt(t) + storage_units_t.p[t]
         = LoadAt(t)

C5_Witness ==
  /\ Solved
  /\ \E t \in Steps : storage_units_t.p[t] > 0 /\ ResidualDispatchAt(t) > 0
  /\ \E t \in Steps : storage_units_t.p[t] < 0 /\ RenewableDispatchAt(t) > 0

\* C6 (as written): in the result table of every solved model
\* curtailed_re(t) >= 0 at every timestep, and it is 0 wherever the total
\* available renewable power is at most load(t) plus the battery's charging
\* power at t.
C6_CurtailmentOnlyOnSurplus ==
  Extracted =>
    \A t \in Steps :
       /\ df_result.curtailed_re[t] >= 0
       /\ TotalAvailableAt(t) <= LoadAt(t) + storage_units_t.p_store[t]
            => df_result.curtailed_re[t] = 0

\* C6 (amended): in the result table of every solved model curtailed_re(t) >= 0
\* at every timestep; and where the residual generator's marginal cost is
\* above the renewables' 0.1 and the battery loses energy over a cycle,
\* curtailed_re(t) is 0 wherever the total available renewable power is at
\* most load(t) plus the battery's charging power at t.
C6_CurtailmentOnlyOnSurplusOfCheaperRenewables ==
  Extracted =>
    \A t \in Steps :
       /\ df_result.curtailed_re[t] >= 0
       /\ (/\ scenario.marginal_cost_residual * 10 > CostDen
           /\ scenario.charge_efficiency * scenario.discharge_efficiency
                < EffDen * EffDen
           /\ TotalAvailableAt(t) <= LoadAt(t) + storage_units_t.p_store[t])
            => df_result.curtailed_re[t] = 0

C6_Witness ==
  /\ Extracted
  /\ \E t \in Steps : /\ storage_units_t.p_store[t] > 0
                      /\ TotalAvailableAt(t) > LoadAt(t)
                      /\ TotalAvailableAt(t) <= LoadAt(t) + storage_units_t.p_store[t]
                      /\ df_result.curtailed_re[t] = 0

\* C7 (as written): with no renewable capacity and no battery power, whatever
\* the other scenario fields, the solved model has residual dispatch = load at
\* every timestep, residual capacity = max load, and no curtailment.
C7_ResidualCarriesLoad ==
  (NoRenewablesNoBattery /\ Extracted) =>
    /\ \A t \in Steps : ResidualDispatchAt(t) = LoadAt(t)
    /\ p_nom_opt = PeakLoad
    /\ \A t \in Steps : df_result.curtailed_re[t] = 0

\* C7 (amended): with no renewable capacity, no battery power and a positive
\* capital cost of the residual generator, the solved model has residual
\* dispatch = load at every timestep, residual capacity = the larger of max
\* load and min_installed_cap_residual, and no curtailment.
C7_ResidualCarriesLoadAboveMinimum ==
  (NoRenewablesNoBattery /\ Extracted /\ scenario.capital_cost_residual > 0) =>
    /\ \A t \in Steps : ResidualDispatchAt(t) = LoadAt(t)
    /\ p_nom_opt = Max2(PeakLoad, MinResidualCapacity)
    /\ \A t \in Steps : df_result.curtailed_re[t] = 0

C7_Witness ==
  /\ NoRenewablesNoBattery
  /\ Extracted
  /\ MinResidualCapacity > PeakLoad
  /\ p_nom_opt = MinResidualCapacity
  /\ \E t \in Steps : ResidualDispatchAt(t) = PeakLoad

\* C8 (as written): whenever min_installed_cap_residual exceeds the maximum
\* load the solve succeeds and the optimized residual capacity equals
\* min_installed_cap_residual; in every solved model the optimized residual
\* capacity is at least min_installed_cap_residual.
C8_MinimumCapacityHonoured ==
  /\ (Optimized /\ MinResidualCapacity > PeakLoad) =>
       (opt_state[1] = "ok" /\ p_nom_opt = MinResidualCapacity)
  /\ Solved => p_nom_opt >= MinResidualCapacity

\* C8 (amended): whenever min_installed_cap_residual exceeds the maximum load
\* and the residual generator's capital cost is positive and its marginal
\* cost not negative, the solve succeeds and the optimized residual capacity
\* equals min_installed_cap_residual; in every solved model the optimized
\* residual capacity is at least min_installed_cap_residual.
C8_MinimumCapacityHonouredAtPositiveCost ==
  /\ (/\ Optimized
      /\ MinResidualCapacity > PeakLoad
      /\ scenario.capital_cost_residual > 0
      /\ scenario.marginal_cost_residual >= 0) =>
       (opt_state[1] = "ok" /\ p_nom_opt = MinResidualCapacity)
  /\ Solved => p_nom_opt >= MinResidualCapacity

C8_Witness ==
  /\ Solved
  /\ MinResidualCapacity > PeakLoad
  /\ p_nom_opt = MinResidualCapacity
  /\ scenario.batteries_p_inst > 0
  /\ \E t \in Steps : ResidualDispatchAt(t) > 0

\* C9: in every solved model the state of charge at the first timestep is the
\* storage transition (standing loss, charge * charge_efficiency, discharge /
\* discharge_efficiency) applied to the state of charge at the last timestep,
\* and 0 <= soc(t) <= battery_power * battery_duration at every timestep.
C9_CyclicBoundedStateOfCharge ==
  Solved =>
    /\ LET soc == storage_units_t.state_of_charge
           \* EffDen * (soc(0) - charge(0) * charge_efficiency)
           gained == EffDen * soc[0]
                       - scenario.charge_efficiency * storage_units_t.p_store[0]
           \* LossDen * discharge_efficiency *
           \*   (soc(last) * (1 - standing_loss) - discharge(0) / discharge_efficiency)
           kept == (LossDen - standing_loss) * scenario.discharge_efficiency
                       * soc[LastStep]
                     - LossDen * EffDen * storage_units_t.p_dispatch[0]
           scale == LossDen * scenario.discharge_efficiency
       \* gained / EffDen = kept / scale; EffDen and scale share no factor.
       IN /\ Whole(kept, scale)
          /\ (kept \div scale) * EffDen = gained
    /\ \A t \in Steps :
         /\ storage_units_t.state_of_charge[t] >= 0
         /\ storage_units_t.state_of_charge[t]
              <= scenario.batteries_p_inst * PowerScale
                   * scenario.batteries_duration

C9_Witness ==
  /\ Solved
  /\ storage_units_t.state_of_charge[LastStep] > 0
  /\ storage_units_t.p_dispatch[0] > 0

\* C10: in the result table residual_load(t) = load(t) - total available
\* renewable power(t) - battery net power(t) = residual dispatch(t) -
\* curtailed_re(t), so it is negative exactly when curtailed_re(t) exceeds the
\* residual dispatch, and the backup capacity main() reports (the largest
\* positive residual_load) is never above the largest residual dispatch.
C10_ResidualLoadFromAvailability ==
  /\ Extracted =>
       \A t \in Steps :
          /\ df_result.residual_load[t]
               = LoadAt(t) - TotalAvailableAt(t) - storage_units_t.p[t]
          /\ df_result.residual_load[t]
               = ResidualDispatchAt(t) - df_result.curtailed_re[t]
          /\ df_result.residual_load[t] < 0
               <=> df_result.curtailed_re[t] > ResidualDispatchAt(t)
  /\ (pc = "done" /\ Positive(df_result.residual_load) # {}) =>
       report.backup_capacity <= PeakResidualDispatch

C10_Witness ==
  /\ pc = "done"
  /\ \E t \in Steps : df_result.residual_load[t] < 0
  /\ \E t \in Steps : df_result.residual_load[t] > 0
  /\ report.backup_capacity = PeakResidualDispatch
  /\ \E t \in Steps : storage_units_t.p[t] # 0

====
